---- MODULE Spec2Model ----
(***************************************************************************)
(* Model of the SMC supply/demand zone detection engine                    *)
(* (src/zone_detector.py) as configured by src/config.py.                   *)
(*                                                                         *)
(* Numbers.  Prices are integers.  Every quantity the code computes in     *)
(* floating point is kept exact: an ATR value is a fraction num/den, the   *)
(* configuration multipliers and every score are kept in tenths (3.5 is    *)
(* 35, a score of 4.5 is 45), and each comparison of the code is the same  *)
(* comparison cross-multiplied.  Array indices are the code's 0-based      *)
(* indices; the series df itself is a TLA+ sequence, so bar i of the code  *)
(* is df[i+1].                                                             *)
(***************************************************************************)
EXTENDS Integers, Sequences, FiniteSets, TLC

VARIABLES
    df,         \* the input series of one invocation: a sequence of bars
    cfg,        \* the values of the config module read by the invocation
    pc,         \* "ready" | "returned" | "raised"
    raw_zones,  \* find_zones' local raw_zones, as it is after the sort
    kept,       \* the list find_zones returns
    signal,     \* what a signal pass called on its own returned
    db,         \* the rows of the zones table, in insertion order
    now,        \* the reading of the store's clock (_now_utc)
    last_call,  \* the latest call of a zone_store function and its result
    alerts,     \* the Telegram sends attempted so far, in order
    scored,     \* the arguments of a call of _score_zone on its own, and its result
    shutdown,   \* scanner._shutdown
    main_pc,    \* where scanner.main is
    instruments,\* run_full_scan's local instruments (tradingsymbols)
    idx,        \* run_full_scan's loop index, from 1
    events      \* signals, full scans and _scan_instrument calls, in order

vars == <<df, cfg, pc, raw_zones, kept, signal, db, now, last_call, alerts, scored,
         shutdown, main_pc, instruments, idx, events>>

detector_vars == <<df, cfg, pc, raw_zones, kept, signal>>

store_vars == <<db, now, last_call>>

main_vars == <<shutdown, main_pc, instruments, idx, events>>

(***************************************************************************)
(* Bounds of the input space.                                              *)
(***************************************************************************)
MaxLen == 6

\* the bars a series is drawn from: a flat bar (high = low) and two unit bars
\* whose bounds touch
BarPalette ==
    { [high |-> 6, low |-> 6, close |-> 6],
      [high |-> 3, low |-> 2, close |-> 3],
      [high |-> 2, low |-> 1, close |-> 1] }

SeriesSet == UNION { [1..n -> BarPalette] : n \in 0..MaxLen }

\* config.py's tunables; the three float ones in tenths.  The last setting
\* has an ATR period longer than the first base-end index of the loop, so the
\* loop meets bars whose ATR is still NaN.
Configs ==
    [ ATR_PERIOD         : {2},
      LOOKBACK_SWINGS    : {1},
      BASE_MAX_CANDLES   : {1, 2},
      BASE_RANGE_ATR_PCT : {12},
      IMPULSE_ATR_MULT   : {10, 35},
      MIN_SCORE          : {0, 40, 65} ]
    \cup
    [ ATR_PERIOD         : {3},
      LOOKBACK_SWINGS    : {1},
      BASE_MAX_CANDLES   : {1},
      BASE_RANGE_ATR_PCT : {12},
      IMPULSE_ATR_MULT   : {10},
      MIN_SCORE          : {0} ]

(***************************************************************************)
(* Column access: df["high"].to_numpy()[i] and so on.                      *)
(***************************************************************************)
High(d, i)  == d[i + 1].high
Low(d, i)   == d[i + 1].low
Close(d, i) == d[i + 1].close

Abs(x) == IF x < 0 THEN -x ELSE x

SetMax(S) == CHOOSE m \in S : \A x \in S : m >= x
SetMin(S) == CHOOSE m \in S : \A x \in S : m <= x

\* high[a:b].max() and low[a:b].min() for a non-empty slice a..b-1
SliceMaxHigh(d, a, b) == SetMax({ High(d, k) : k \in a..(b - 1) })
SliceMinLow(d, a, b)  == SetMin({ Low(d, k) : k \in a..(b - 1) })

\* any(arr[a:b])
AnyIn(arr, a, b) == \E k \in a..(b - 1) : arr[k]

(***************************************************************************)
(* ATR                                                                     *)
(***************************************************************************)
NaN == [nan |-> TRUE, num |-> 0, den |-> 1]

\* variant: the range of the bar alone, the previous close ignored
TrueRange_of_bar_alone(d, i) == High(d, i) - Low(d, i)

TrueRange(d, i) ==
    IF i = 0
    THEN High(d, 0) - Low(d, 0)
    ELSE SetMax({ High(d, i) - Low(d, i),
                  Abs(High(d, i) - Close(d, i - 1)),
                  Abs(Low(d, i) - Close(d, i - 1)) })

RECURSIVE SumTR(_, _)
SumTR(d, k) == IF k = 0 THEN 0 ELSE SumTR(d, k - 1) + TrueRange(d, k - 1)

\* a 0-based array holding the elements of a sequence
ArrayOf(seq) == [i \in 0..(Len(seq) - 1) |-> seq[i + 1]]

\* for i in range(period, n): atr[i] = atr[i-1] * (1 - alpha) + tr[i] * alpha,
\* from bar i on; acc holds atr[0..i-1]
RECURSIVE atr_smooth(_, _, _, _)
atr_smooth(d, period, i, acc) ==
    IF i >= Len(d)
    THEN acc
    ELSE atr_smooth(d, period, i + 1,
            Append(acc, [nan |-> FALSE,
                         num |-> acc[i].num * (period - 1)
                                   + TrueRange(d, i) * acc[i].den,
                         den |-> acc[i].den * period]))

\* _compute_atr: on an empty series tr[0] = high[0] - low[0] raises IndexError.
compute_atr(d, period) ==
    LET n == Len(d)
        \* atr[:period] = np.nan, then atr[period - 1] = tr[:period].mean()
        seeded == [k \in 1..period |->
                      IF k < period
                      THEN NaN
                      ELSE [nan |-> FALSE, num |-> SumTR(d, period), den |-> period]]
    IN  IF n = 0
        THEN [raised |-> TRUE, value |-> << >>]
        ELSE [raised |-> FALSE,
              value  |-> IF n >= period
                         THEN ArrayOf(atr_smooth(d, period, period, seeded))
                         ELSE [i \in 0..(n - 1) |-> NaN]]

(***************************************************************************)
(* Swing highs / lows                                                      *)
(***************************************************************************)
\* variant: the window is the bar and the n bars before it
compute_swings_trailing_window(d, n) ==
    LET length == Len(d)
    IN  [ swing_high |->
            [i \in 0..(length - 1) |->
                /\ n <= i
                /\ i < length - n
                /\ High(d, i) = SliceMaxHigh(d, i - n, i + 1)],
          swing_low |->
            [i \in 0..(length - 1) |->
                /\ n <= i
                /\ i < length - n
                /\ Low(d, i) = SliceMinLow(d, i - n, i + 1)] ]

compute_swings(d, n) ==
    LET length == Len(d)
    IN  [ swing_high |->
            [i \in 0..(length - 1) |->
                /\ n <= i
                /\ i < length - n
                /\ High(d, i) = SliceMaxHigh(d, i - n, i + n + 1)],
          swing_low |->
            [i \in 0..(length - 1) |->
                /\ n <= i
                /\ i < length - n
                /\ Low(d, i) = SliceMinLow(d, i - n, i + n + 1)] ]

(***************************************************************************)
(* BOS (Break of Structure)                                                *)
(***************************************************************************)
None == [some |-> FALSE, v |-> 0]
Some(x) == [some |-> TRUE, v |-> x]

\* the loop of _compute_bos from bar i on; last_swing_high and last_swing_low
\* are the running state, acc the flags of the bars 0..i-1
RECURSIVE bos_loop(_, _, _, _, _, _, _)
bos_loop(d, swing_high, swing_low, i, last_swing_high, last_swing_low, acc) ==
    IF i >= Len(d)
    THEN acc
    ELSE LET lsh == IF swing_high[i] THEN Some(High(d, i)) ELSE last_swing_high
             lsl == IF swing_low[i] THEN Some(Low(d, i)) ELSE last_swing_low
         IN  bos_loop(d, swing_high, swing_low, i + 1, lsh, lsl,
                Append(acc, [bullish |-> lsh.some /\ Close(d, i) > lsh.v,
                             bearish |-> lsl.some /\ Close(d, i) < lsl.v]))

\* variant: a flag is set on the first bar of a break only
compute_bos_first_bar_only(d, swing_high, swing_low) ==
    LET flags == bos_loop(d, swing_high, swing_low, 0, None, None, << >>)
    IN  [ bullish_bos |-> [i \in 0..(Len(d) - 1) |->
                              flags[i + 1].bullish /\ (i = 0 \/ ~flags[i].bullish)],
          bearish_bos |-> [i \in 0..(Len(d) - 1) |->
                              flags[i + 1].bearish /\ (i = 0 \/ ~flags[i].bearish)] ]

compute_bos(d, swing_high, swing_low) ==
    LET flags == bos_loop(d, swing_high, swing_low, 0, None, None, << >>)
    IN  [ bullish_bos |-> [i \in 0..(Len(d) - 1) |-> flags[i + 1].bullish],
          bearish_bos |-> [i \in 0..(Len(d) - 1) |-> flags[i + 1].bearish] ]

(***************************************************************************)
(* FVG (Fair Value Gap)                                                    *)
(***************************************************************************)
\* variant: the gap is measured to bar i itself, not to bar i + 1
compute_fvg_adjacent_bar(d) ==
    LET length == Len(d)
    IN  [ bullish_fvg |->
            [i \in 0..(length - 1) |->
                /\ 1 <= i
                /\ i < length - 1
                /\ High(d, i - 1) < Low(d, i)],
          bearish_fvg |->
            [i \in 0..(length - 1) |->
                /\ 1 <= i
                /\ i < length - 1
                /\ Low(d, i - 1) > High(d, i)] ]

compute_fvg(d) ==
    LET length == Len(d)
    IN  [ bullish_fvg |->
            [i \in 0..(length - 1) |->
                /\ 1 <= i
                /\ i < length - 1
                /\ High(d, i - 1) < Low(d, i + 1)],
          bearish_fvg |->
            [i \in 0..(length - 1) |->
                /\ 1 <= i
                /\ i < length - 1
                /\ Low(d, i - 1) > High(d, i + 1)] ]

(***************************************************************************)
(* Zone freshness                                                          *)
(***************************************************************************)
\* the for loop of _is_fresh, from bar k on
RECURSIVE is_fresh_from(_, _, _, _)
is_fresh_from(d, k, zone_high, zone_low) ==
    IF k >= Len(d)
    THEN TRUE
    ELSE IF Low(d, k) < zone_high /\ High(d, k) > zone_low
    THEN FALSE
    ELSE is_fresh_from(d, k + 1, zone_high, zone_low)

\* variant: the scan covers the whole series, the bars before the base too
is_fresh_whole_series(d, base_end_idx, zone_high, zone_low) ==
    is_fresh_from(d, 0, zone_high, zone_low)

\* variant: the scan starts at the base's last bar instead of the bar after it
is_fresh_from_base_end(d, base_end_idx, zone_high, zone_low) ==
    is_fresh_from(d, base_end_idx, zone_high, zone_low)

is_fresh(d, base_end_idx, zone_high, zone_low) ==
    is_fresh_from(d, base_end_idx + 1, zone_high, zone_low)

(***************************************************************************)
(* Scoring.  impulse_atr_ratio is the fraction num/den, atr_val an ATR     *)
(* value; the returned scores are in tenths.                               *)
(***************************************************************************)
\* variant: the top impulse grade is worth 2.0
score_zone_heavy_impulse(zone_type, impulse_atr_ratio, base_range, atr_val, fresh, fvg_present, bos_aligned, base_len) ==
    LET r == impulse_atr_ratio
        details ==
            [ impulse |->
                IF r.num > 3 * r.den THEN 20
                ELSE IF 10 * r.num > 18 * r.den THEN 5
                ELSE 0,
              tightness |->
                IF atr_val.num > 0
                THEN IF 100 * base_range * atr_val.den < 20 * atr_val.num THEN 10
                     ELSE IF 100 * base_range * atr_val.den < 40 * atr_val.num THEN 5
                     ELSE 0
                ELSE 0,
              freshness  |-> IF fresh THEN 10 ELSE 0,
              fvg        |-> IF fvg_present THEN 10 ELSE 0,
              bos        |-> IF bos_aligned THEN 10 ELSE 0,
              clean_base |-> IF base_len <= 2 THEN 10 ELSE 0 ]
    IN  [ total   |-> details.impulse + details.tightness + details.freshness
                        + details.fvg + details.bos + details.clean_base,
          details |-> details ]

\* variant: a ratio exactly at a threshold falls in the higher-scoring band
score_zone_inclusive_bands(zone_type, impulse_atr_ratio, base_range, atr_val, fresh, fvg_present, bos_aligned, base_len) ==
    LET r == impulse_atr_ratio
        details ==
            [ impulse |->
                IF r.num >= 3 * r.den THEN 10
                ELSE IF 10 * r.num >= 18 * r.den THEN 5
                ELSE 0,
              tightness |->
                IF atr_val.num > 0
                THEN IF 100 * base_range * atr_val.den <= 20 * atr_val.num THEN 10
                     ELSE IF 100 * base_range * atr_val.den <= 40 * atr_val.num THEN 5
                     ELSE 0
                ELSE 0,
              freshness  |-> IF fresh THEN 10 ELSE 0,
              fvg        |-> IF fvg_present THEN 10 ELSE 0,
              bos        |-> IF bos_aligned THEN 10 ELSE 0,
              clean_base |-> IF base_len <= 2 THEN 10 ELSE 0 ]
    IN  [ total   |-> details.impulse + details.tightness + details.freshness
                        + details.fvg + details.bos + details.clean_base,
          details |-> details ]

score_zone(zone_type, impulse_atr_ratio, base_range, atr_val, fresh, fvg_present, bos_aligned, base_len) ==
    LET r == impulse_atr_ratio
        details ==
            [ impulse |->
                IF r.num > 3 * r.den THEN 10
                ELSE IF 10 * r.num > 18 * r.den THEN 5
                ELSE 0,
              tightness |->
                \* base_pct = base_range / atr_val if atr_val > 0 else 1.0
                IF atr_val.num > 0
                THEN IF 100 * base_range * atr_val.den < 20 * atr_val.num THEN 10
                     ELSE IF 100 * base_range * atr_val.den < 40 * atr_val.num THEN 5
                     ELSE 0
                ELSE 0,
              freshness  |-> IF fresh THEN 10 ELSE 0,
              fvg        |-> IF fvg_present THEN 10 ELSE 0,
              bos        |-> IF bos_aligned THEN 10 ELSE 0,
              clean_base |-> IF base_len <= 2 THEN 10 ELSE 0 ]
    IN  [ total   |-> details.impulse + details.tightness + details.freshness
                        + details.fvg + details.bos + details.clean_base,
          details |-> details ]

(***************************************************************************)
(* Main detection function                                                 *)
(***************************************************************************)
LookAhead == 4

Min2(a, b) == IF a < b THEN a ELSE b

\* the four signal passes at the head of find_zones (atr is not raised here)
signals(d, c) ==
    LET sw  == compute_swings(d, c.LOOKBACK_SWINGS)
        bos == compute_bos(d, sw.swing_high, sw.swing_low)
        fvg == compute_fvg(d)
    IN  [ atr         |-> compute_atr(d, c.ATR_PERIOD).value,
          bullish_bos |-> bos.bullish_bos,
          bearish_bos |-> bos.bearish_bos,
          bullish_fvg |-> fvg.bullish_fvg,
          bearish_fvg |-> fvg.bearish_fvg ]

\* the base ending at bar i with base_len bars, and its look-ahead window
base_of(d, i, base_len) ==
    LET base_start == i - base_len + 1
        base_high  == SliceMaxHigh(d, base_start, i + 1)
        base_low   == SliceMinLow(d, base_start, i + 1)
        look_end   == Min2(i + LookAhead, Len(d))
    IN  [ base_start |-> base_start,
          base_end   |-> i,
          base_high  |-> base_high,
          base_low   |-> base_low,
          base_range |-> base_high - base_low,
          look_end   |-> look_end,
          up_move    |-> SliceMaxHigh(d, i, look_end) - base_high,
          down_move  |-> base_low - SliceMinLow(d, i, look_end) ]

\* variant: only NaN is skipped, a zero ATR is let through
atr_usable_unless_nan(atr_i) == ~atr_i.nan

\* not (np.isnan(atr_i) or atr_i == 0)
atr_usable(atr_i) == ~atr_i.nan /\ atr_i.num # 0

\* not (base_range > config.BASE_RANGE_ATR_PCT * atr_i)
base_tight_enough(c, base_range, atr_i) ==
    ~(10 * base_range * atr_i.den > c.BASE_RANGE_ATR_PCT * atr_i.num)

\* variant: any move of one ATR counts as an impulse
is_impulse_of_one_atr(c, impulse_move, atr_i) ==
    impulse_move * atr_i.den >= atr_i.num

\* impulse_move >= config.IMPULSE_ATR_MULT * atr_i
is_impulse(c, impulse_move, atr_i) ==
    10 * impulse_move * atr_i.den >= c.IMPULSE_ATR_MULT * atr_i.num

\* whether the base b (ending at a bar with ATR atr_i) reaches the scorer as
\* a zone of type zone_type
qualifies(c, atr_i, b, zone_type) ==
    /\ atr_usable(atr_i)
    /\ base_tight_enough(c, b.base_range, atr_i)
    /\ is_impulse(c, IF zone_type = "demand" THEN b.up_move ELSE b.down_move, atr_i)

\* variant: exactly 5.0 is not yet 'High'
probability_of_above_five(score) == IF score > 50 THEN "High" ELSE "Medium-High"

\* the label of lines 312-315; score in tenths
probability_of(score) == IF score >= 50 THEN "High" ELSE "Medium-High"

\* the ZoneDict built for a qualifying base; datetime_start and datetime_end
\* are the timestamps of the bars base_start_idx and base_end_idx
scored_zone(d, sig, b, zone_type) ==
    LET i            == b.base_end
        base_len     == b.base_end - b.base_start + 1
        atr_i        == sig.atr[i]
        impulse_move == IF zone_type = "demand" THEN b.up_move ELSE b.down_move
        impulse_ratio == [num |-> impulse_move * atr_i.den, den |-> atr_i.num]
        fvg_present  == IF zone_type = "demand"
                        THEN AnyIn(sig.bullish_fvg, i, b.look_end)
                        ELSE AnyIn(sig.bearish_fvg, i, b.look_end)
        bos_aligned  == IF zone_type = "demand"
                        THEN AnyIn(sig.bullish_bos, i, b.look_end)
                        ELSE AnyIn(sig.bearish_bos, i, b.look_end)
        fresh        == is_fresh(d, b.base_end, b.base_high, b.base_low)
        sc           == score_zone(zone_type, impulse_ratio, b.base_range, atr_i,
                                   fresh, fvg_present, bos_aligned, base_len)
    IN  [ type           |-> zone_type,
          zone_high      |-> b.base_high,
          zone_low       |-> b.base_low,
          zone_mid       |-> [num |-> b.base_high + b.base_low, den |-> 2],
          score          |-> sc.total,
          probability    |-> probability_of(sc.total),
          base_start_idx |-> b.base_start,
          base_end_idx   |-> b.base_end,
          mitigated      |-> ~fresh,
          fvg_present    |-> fvg_present,
          impulse_ratio  |-> impulse_ratio,
          score_details  |-> sc.details ]

\* variant: a score equal to MIN_SCORE is dropped too
passes_min_score_strict(c, score) == ~(score <= c.MIN_SCORE)

\* variant: the comparison is the wrong way round
passes_min_score_flipped(c, score) == ~(score > c.MIN_SCORE)

\* not (score < config.MIN_SCORE)
passes_min_score(c, score) == ~(score < c.MIN_SCORE)

\* what the base b appends to raw_zones for zone_type
zone_entry(d, c, sig, b, zone_type) ==
    IF qualifies(c, sig.atr[b.base_end], b, zone_type)
    THEN LET zone == scored_zone(d, sig, b, zone_type)
         IN  IF passes_min_score(c, zone.score) THEN << zone >> ELSE << >>
    ELSE << >>

\* the loop over base_len, from base_len on
RECURSIVE zones_of_bar(_, _, _, _, _)
zones_of_bar(d, c, sig, i, base_len) ==
    IF base_len > c.BASE_MAX_CANDLES
    THEN << >>
    ELSE LET b == base_of(d, i, base_len)
         IN  zone_entry(d, c, sig, b, "demand")
               \o zone_entry(d, c, sig, b, "supply")
               \o zones_of_bar(d, c, sig, i, base_len + 1)

\* variant: the loop runs one index further, through n - bmc - 1
RECURSIVE zones_from_one_further(_, _, _, _)
zones_from_one_further(d, c, sig, i) ==
    IF i >= Len(d) - c.BASE_MAX_CANDLES
    THEN << >>
    ELSE zones_of_bar(d, c, sig, i, 1) \o zones_from_one_further(d, c, sig, i + 1)

\* the loop for i in range(bmc, n - bmc - 1), from i on
RECURSIVE zones_from(_, _, _, _)
zones_from(d, c, sig, i) ==
    IF i >= Len(d) - c.BASE_MAX_CANDLES - 1
    THEN << >>
    ELSE zones_of_bar(d, c, sig, i, 1) \o zones_from(d, c, sig, i + 1)

generate_raw_zones(d, c) ==
    zones_from(d, c, signals(d, c), c.BASE_MAX_CANDLES)

\* variant: the sort without reverse=True
RECURSIVE insert_by_score_ascending(_, _)
insert_by_score_ascending(s, z) ==
    IF s = << >> THEN << z >>
    ELSE IF Head(s).score <= z.score
    THEN << Head(s) >> \o insert_by_score_ascending(Tail(s), z)
    ELSE << z >> \o s

\* variant: an unstable sort, a zone goes before the zones of its score
RECURSIVE insert_by_score_before_ties(_, _)
insert_by_score_before_ties(s, z) ==
    IF s = << >> THEN << z >>
    ELSE IF Head(s).score > z.score
    THEN << Head(s) >> \o insert_by_score_before_ties(Tail(s), z)
    ELSE << z >> \o s

\* list.sort(key=score, reverse=True): stable, equal scores keep their order
RECURSIVE insert_by_score(_, _)
insert_by_score(s, z) ==
    IF s = << >> THEN << z >>
    ELSE IF Head(s).score >= z.score
    THEN << Head(s) >> \o insert_by_score(Tail(s), z)
    ELSE << z >> \o s

RECURSIVE sort_by_score(_)
sort_by_score(zs) ==
    IF zs = << >> THEN << >>
    ELSE insert_by_score(sort_by_score(SubSeq(zs, 1, Len(zs) - 1)), zs[Len(zs)])

\* variant: the second comparison is against the kept zone's upper bound
price_overlap_upper_bound(zone, kept_zone) ==
    zone.zone_low < kept_zone.zone_high /\ zone.zone_high > kept_zone.zone_high

\* zone["zone_low"] < kept_zone["zone_high"] and zone["zone_high"] > kept_zone["zone_low"]
price_overlap(zone, kept_zone) ==
    zone.zone_low < kept_zone.zone_high /\ zone.zone_high > kept_zone.zone_low

\* variant: the inner loop without its type check
overlaps_kept_any_type(zone, kept_list) ==
    \E j \in 1..Len(kept_list) : price_overlap(zone, kept_list[j])

\* the inner loop over kept
overlaps_kept(zone, kept_list) ==
    \E j \in 1..Len(kept_list) :
        /\ kept_list[j].type = zone.type
        /\ price_overlap(zone, kept_list[j])

\* the de-duplication loop, from position k of the sorted raw_zones on
RECURSIVE dedup_from(_, _, _)
dedup_from(zs, k, kept_list) ==
    IF k > Len(zs) THEN kept_list
    ELSE dedup_from(zs, k + 1,
                    IF overlaps_kept(zs[k], kept_list)
                    THEN kept_list
                    ELSE Append(kept_list, zs[k]))

\* lines 336-350 applied to the generated list: the sorted list and the result
sorted_raw_zones(d, c) == sort_by_score(generate_raw_zones(d, c))

find_zones_result(d, c) == dedup_from(sorted_raw_zones(d, c), 1, << >>)

(***************************************************************************)
(* The zone store (src/zone_store.py).  A price is an integer number of    *)
(* thousandths, a timestamp a record of whole seconds s and microseconds   *)
(* us, a stored flag 0 or 1.  A row carries the columns the scanner reads  *)
(* or the store rewrites; exchange, zone_mid, probability, fvg_present     *)
(* and impulse_ratio are written by the INSERT alone, like score.          *)
(***************************************************************************)
\* str(datetime_start)[:19]: the text up to the seconds, the fraction cut off
truncate_to_seconds(datetime_start) == datetime_start.s

\* f"{x:.2f}": x to the nearest hundredth (no input lies half-way)
format_2f(x) == (x + 5) \div 10

\* variant: the prices enter the key as they are
make_zone_key_exact_prices(instrument, zone_type, datetime_start, zone_high, zone_low) ==
    << instrument, zone_type, truncate_to_seconds(datetime_start), zone_high, zone_low >>

make_zone_key(instrument, zone_type, datetime_start, zone_high, zone_low) ==
    << instrument, zone_type, truncate_to_seconds(datetime_start),
       format_2f(zone_high), format_2f(zone_low) >>

\* int(flag)
int(flag) == IF flag THEN 1 ELSE 0

\* SELECT id FROM zones WHERE zone_key = ?
existing(rows, key) == \E i \in 1..Len(rows) : rows[i].zone_key = key

\* the row of the INSERT statement
inserted_row(key, instrument, zone, t) ==
    [ zone_key              |-> key,
      instrument            |-> instrument,
      zone_type             |-> zone.type,
      zone_high             |-> zone.zone_high,
      zone_low              |-> zone.zone_low,
      score                 |-> zone.score,
      mitigated             |-> int(zone.mitigated),
      datetime_start        |-> zone.datetime_start,
      datetime_end          |-> zone.datetime_end,
      first_seen            |-> t,
      last_updated          |-> t,
      alert_sent            |-> 0,
      mitigation_alert_sent |-> 0 ]

\* upsert_zone whose UPDATE writes last_updated only
upsert_zone_keeping_flag(rows, instrument, zone, t) ==
    LET key == make_zone_key(instrument, zone.type, zone.datetime_start,
                             zone.zone_high, zone.zone_low)
        updated == [i \in 1..Len(rows) |->
                       IF rows[i].zone_key = key
                       THEN [rows[i] EXCEPT !.last_updated = t]
                       ELSE rows[i]]
    IN  IF existing(rows, key)
        THEN [rows |-> updated, returned |-> FALSE]
        ELSE [rows |-> Append(rows, inserted_row(key, instrument, zone, t)),
              returned |-> TRUE]

\* upsert_zone at clock reading t: the table afterwards and the value returned
upsert_zone(rows, instrument, zone, t) ==
    LET key == make_zone_key(instrument, zone.type, zone.datetime_start,
                             zone.zone_high, zone.zone_low)
        \* UPDATE zones SET last_updated = ?, mitigated = ? WHERE zone_key = ?
        updated == [i \in 1..Len(rows) |->
                       IF rows[i].zone_key = key
                       THEN [rows[i] EXCEPT !.last_updated = t,
                                            !.mitigated = int(zone.mitigated)]
                       ELSE rows[i]]
    IN  IF existing(rows, key)
        THEN [rows |-> updated, returned |-> FALSE]
        ELSE [rows |-> Append(rows, inserted_row(key, instrument, zone, t)),
              returned |-> TRUE]

\* SELECT * FROM zones WHERE instrument = ? AND mitigated = 0
get_active_zones(rows, instrument) ==
    SelectSeq(rows, LAMBDA row : row.instrument = instrument /\ row.mitigated = 0)

\* UPDATE zones SET mitigated = 1, last_updated = ? WHERE zone_key = ?
mark_mitigated(rows, zone_key, t) ==
    [i \in 1..Len(rows) |->
        IF rows[i].zone_key = zone_key
        THEN [rows[i] EXCEPT !.mitigated = 1, !.last_updated = t]
        ELSE rows[i]]

\* UPDATE zones SET alert_sent = 1 WHERE zone_key = ?
mark_alert_sent(rows, zone_key) ==
    [i \in 1..Len(rows) |->
        IF rows[i].zone_key = zone_key
        THEN [rows[i] EXCEPT !.alert_sent = 1]
        ELSE rows[i]]

\* UPDATE zones SET mitigation_alert_sent = 1 WHERE zone_key = ?
mark_mitigation_alert_sent(rows, zone_key) ==
    [i \in 1..Len(rows) |->
        IF rows[i].zone_key = zone_key
        THEN [rows[i] EXCEPT !.mitigation_alert_sent = 1]
        ELSE rows[i]]

\* no call of a store function yet
NoCall == [op |-> "none"]

\* the store as init_db leaves a new database
StoreInit ==
    /\ db = << >>
    /\ now = 0
    /\ last_call = NoCall

(***************************************************************************)
(* The state machine: one invocation of find_zones on an input series.     *)
(***************************************************************************)
\* no signal pass has been called on its own
NoSignal == << >>

\* no call of _score_zone on its own
NoScore == << >>

\* scanner.main is not running: the functions are called directly
MainNotRunning ==
    /\ shutdown = FALSE
    /\ main_pc = "not_running"
    /\ instruments = << >>
    /\ idx = 0
    /\ events = << >>

Init ==
    /\ df \in SeriesSet
    /\ cfg \in Configs
    /\ pc = "ready"
    /\ raw_zones = << >>
    /\ kept = << >>
    /\ signal = NoSignal
    /\ StoreInit
    /\ alerts = << >>
    /\ scored = NoScore
    /\ MainNotRunning

find_zones ==
    /\ pc = "ready"
    /\ IF compute_atr(df, cfg.ATR_PERIOD).raised
       THEN /\ pc' = "raised"
            /\ UNCHANGED <<raw_zones, kept>>
       ELSE LET sorted == sorted_raw_zones(df, cfg)
            IN  /\ raw_zones' = sorted
                /\ kept' = dedup_from(sorted, 1, << >>)
                /\ pc' = "returned"
    /\ UNCHANGED <<df, cfg, signal>>
    /\ UNCHANGED <<store_vars, alerts, scored, main_vars>>

Next == find_zones

Spec == Init /\ [][Next]_vars

(***************************************************************************)
(* find_zones on longer series under one configuration, where candidates   *)
(* of equal score overlap each other and a higher-scored zone.             *)
(***************************************************************************)
MaxTieLen == 7

TieConfig ==
    [ ATR_PERIOD         |-> 2,
      LOOKBACK_SWINGS    |-> 1,
      BASE_MAX_CANDLES   |-> 2,
      BASE_RANGE_ATR_PCT |-> 12,
      IMPULSE_ATR_MULT   |-> 10,
      MIN_SCORE          |-> 0 ]

InitTies ==
    /\ df \in UNION { [1..n -> BarPalette] : n \in 0..MaxTieLen }
    /\ cfg = TieConfig
    /\ pc = "ready"
    /\ raw_zones = << >>
    /\ kept = << >>
    /\ signal = NoSignal
    /\ StoreInit
    /\ alerts = << >>
    /\ scored = NoScore
    /\ MainNotRunning

SpecTies == InitTies /\ [][Next]_vars

(***************************************************************************)
(* The signal passes called one at a time: _compute_atr, _compute_swings   *)
(* and _compute_fvg on a series, _compute_bos on the swing markers of      *)
(* _compute_swings.  pc names the pass that returned last.                 *)
(***************************************************************************)
\* ATR periods and swing half-windows around the series lengths, the other
\* tunables at their config.py values
PassConfigs ==
    [ ATR_PERIOD         : 1..3,
      LOOKBACK_SWINGS    : 0..2,
      BASE_MAX_CANDLES   : {5},
      BASE_RANGE_ATR_PCT : {12},
      IMPULSE_ATR_MULT   : {35},
      MIN_SCORE          : {40} ]

\* config.py as it is written
DefaultConfig ==
    [ ATR_PERIOD         |-> 14,
      LOOKBACK_SWINGS    |-> 5,
      BASE_MAX_CANDLES   |-> 5,
      BASE_RANGE_ATR_PCT |-> 12,
      IMPULSE_ATR_MULT   |-> 35,
      MIN_SCORE          |-> 40 ]

InitPasses ==
    /\ df \in SeriesSet
    /\ cfg \in PassConfigs
    /\ pc = "ready"
    /\ raw_zones = << >>
    /\ kept = << >>
    /\ signal = NoSignal
    /\ StoreInit
    /\ alerts = << >>
    /\ scored = NoScore
    /\ MainNotRunning

run_compute_atr ==
    /\ pc = "ready"
    /\ LET atr == compute_atr(df, cfg.ATR_PERIOD)
       IN  IF atr.raised
           THEN pc' = "raised" /\ UNCHANGED signal
           ELSE pc' = "atr" /\ signal' = atr.value
    /\ UNCHANGED <<df, cfg, raw_zones, kept>>
    /\ UNCHANGED <<store_vars, alerts, scored, main_vars>>

run_compute_swings ==
    /\ pc = "ready"
    /\ signal' = compute_swings(df, cfg.LOOKBACK_SWINGS)
    /\ pc' = "swings"
    /\ UNCHANGED <<df, cfg, raw_zones, kept>>
    /\ UNCHANGED <<store_vars, alerts, scored, main_vars>>

run_compute_bos ==
    /\ pc = "swings"
    /\ LET bos == compute_bos(df, signal.swing_high, signal.swing_low)
       IN  signal' = [ swing_high  |-> signal.swing_high,
                       swing_low   |-> signal.swing_low,
                       bullish_bos |-> bos.bullish_bos,
                       bearish_bos |-> bos.bearish_bos ]
    /\ pc' = "bos"
    /\ UNCHANGED <<df, cfg, raw_zones, kept>>
    /\ UNCHANGED <<store_vars, alerts, scored, main_vars>>

run_compute_fvg ==
    /\ pc = "ready"
    /\ signal' = compute_fvg(df)
    /\ pc' = "fvg"
    /\ UNCHANGED <<df, cfg, raw_zones, kept>>
    /\ UNCHANGED <<store_vars, alerts, scored, main_vars>>

NextPasses ==
    \/ run_compute_atr
    \/ run_compute_swings
    \/ run_compute_bos
    \/ run_compute_fvg

SpecPasses == InitPasses /\ [][NextPasses]_vars

(***************************************************************************)
(* The zone store called function by function on a new database.  Every   *)
(* call reads the clock, which has advanced since the call before.         *)
(***************************************************************************)
MaxCalls == 3

StoreInstruments == {"RELIANCE"}

\* zone dicts handed to upsert_zone: start times within one second, upper
\* bounds within half a hundredth of 3.00 and one a hundredth above
StoreZones ==
    [ type           : {"demand", "supply"},
      datetime_start : {[s |-> 0, us |-> 0], [s |-> 0, us |-> 500000]},
      datetime_end   : {[s |-> 300, us |-> 0]},
      zone_high      : {3000, 3004},
      zone_low       : {2000},
      score          : {45, 50},
      mitigated      : BOOLEAN ]

\* the keys passed to the mark_* functions
StoreKeys ==
    { make_zone_key(i, z.type, z.datetime_start, z.zone_high, z.zone_low) :
        i \in StoreInstruments, z \in StoreZones }

InitStore ==
    /\ df = << >>
    /\ cfg = DefaultConfig
    /\ pc = "ready"
    /\ raw_zones = << >>
    /\ kept = << >>
    /\ signal = NoSignal
    /\ StoreInit
    /\ alerts = << >>
    /\ scored = NoScore
    /\ MainNotRunning

call_upsert_zone ==
    /\ now < MaxCalls
    /\ \E instrument \in StoreInstruments, zone \in StoreZones :
          LET result == upsert_zone(db, instrument, zone, now)
          IN  /\ db' = result.rows
              /\ last_call' = [op |-> "upsert_zone", instrument |-> instrument,
                               zone |-> zone, returned |-> result.returned]
    /\ now' = now + 1
    /\ UNCHANGED <<detector_vars, alerts, scored, main_vars>>

call_mark_mitigated ==
    /\ now < MaxCalls
    /\ \E zone_key \in StoreKeys :
          /\ db' = mark_mitigated(db, zone_key, now)
          /\ last_call' = [op |-> "mark_mitigated", zone_key |-> zone_key]
    /\ now' = now + 1
    /\ UNCHANGED <<detector_vars, alerts, scored, main_vars>>

call_mark_alert_sent ==
    /\ now < MaxCalls
    /\ \E zone_key \in StoreKeys :
          /\ db' = mark_alert_sent(db, zone_key)
          /\ last_call' = [op |-> "mark_alert_sent", zone_key |-> zone_key]
    /\ now' = now + 1
    /\ UNCHANGED <<detector_vars, alerts, scored, main_vars>>

call_mark_mitigation_alert_sent ==
    /\ now < MaxCalls
    /\ \E zone_key \in StoreKeys :
          /\ db' = mark_mitigation_alert_sent(db, zone_key)
          /\ last_call' = [op |-> "mark_mitigation_alert_sent", zone_key |-> zone_key]
    /\ now' = now + 1
    /\ UNCHANGED <<detector_vars, alerts, scored, main_vars>>

NextStore ==
    \/ call_upsert_zone
    \/ call_mark_mitigated
    \/ call_mark_alert_sent
    \/ call_mark_mitigation_alert_sent

SpecStore == InitStore /\ [][NextStore]_vars

(***************************************************************************)
(* The scanner (src/scanner.py) on one instrument.  df is the instrument's *)
(* 5-minute candle history as fetch_ohlcv returns it, bar i stamped        *)
(* CandleSeconds * i; a candle closes between scans.  The detector's       *)
(* prices are whole units, the store's are thousandths.  Every store call  *)
(* of one scan reads the same clock second, the next scan a later one.     *)
(***************************************************************************)
MaxNewCandles == 2

MaxScans == 2

CandleSeconds == 300

ScanInstrument == "RELIANCE"

\* the candles of the scanned instrument: a flat bar and a unit bar
ScanPalette ==
    { [high |-> 6, low |-> 6, close |-> 6],
      [high |-> 2, low |-> 1, close |-> 1] }

\* config.py for the scans: short windows, the alert threshold at its value
\* 5.0 and at MIN_SCORE
ScanConfigs ==
    [ ATR_PERIOD         : {2},
      LOOKBACK_SWINGS    : {1},
      BASE_MAX_CANDLES   : {2},
      BASE_RANGE_ATR_PCT : {12},
      IMPULSE_ATR_MULT   : {35},
      MIN_SCORE          : {40},
      ALERT_MIN_SCORE    : {40, 50} ]

\* min_bars of _scan_instrument
min_bars(c) == c.ATR_PERIOD + c.BASE_MAX_CANDLES + c.LOOKBACK_SWINGS + 5

\* df["datetime"].iloc[i]
bar_time(i) == [s |-> CandleSeconds * i, us |-> 0]

\* t1 > t2 on timestamps
later_than(t1, t2) == t1.s > t2.s \/ (t1.s = t2.s /\ t1.us > t2.us)

\* the ZoneDict of a detected zone as the store and the notifier read it
zone_dict(z) ==
    [ type           |-> z.type,
      datetime_start |-> bar_time(z.base_start_idx),
      datetime_end   |-> bar_time(z.base_end_idx),
      zone_high      |-> 1000 * z.zone_high,
      zone_low       |-> 1000 * z.zone_low,
      score          |-> z.score,
      mitigated      |-> z.mitigated ]

\* _check_mitigation: some candle after datetime_end traded inside the zone
check_mitigation(d, zone_high, zone_low, datetime_end) ==
    \E i \in 0..(Len(d) - 1) :
        /\ later_than(bar_time(i), datetime_end)
        /\ 1000 * Low(d, i) < zone_high
        /\ 1000 * High(d, i) > zone_low

\* variant: every detected zone counts as newly inserted
RECURSIVE upsert_loop_all_new(_, _, _, _, _)
upsert_loop_all_new(rows, zones, k, t, newly_inserted) ==
    IF k > Len(zones)
    THEN [rows |-> rows, newly_inserted |-> newly_inserted]
    ELSE LET zone     == zone_dict(zones[k])
             zone_key == make_zone_key(ScanInstrument, zone.type, zone.datetime_start,
                                       zone.zone_high, zone.zone_low)
             is_new   == upsert_zone(rows, ScanInstrument, zone, t)
         IN  upsert_loop_all_new(is_new.rows, zones, k + 1, t,
                Append(newly_inserted, [zone_key |-> zone_key, zone |-> zone]))

\* the upsert loop from zone k on: the table and newly_inserted afterwards
RECURSIVE upsert_loop(_, _, _, _, _)
upsert_loop(rows, zones, k, t, newly_inserted) ==
    IF k > Len(zones)
    THEN [rows |-> rows, newly_inserted |-> newly_inserted]
    ELSE LET zone     == zone_dict(zones[k])
             zone_key == make_zone_key(ScanInstrument, zone.type, zone.datetime_start,
                                       zone.zone_high, zone.zone_low)
             is_new   == upsert_zone(rows, ScanInstrument, zone, t)
         IN  upsert_loop(is_new.rows, zones, k + 1, t,
                IF is_new.returned
                THEN Append(newly_inserted, [zone_key |-> zone_key, zone |-> zone])
                ELSE newly_inserted)

\* the mitigation loop over stored_active from row k on; st holds the table
\* and the sends attempted, send_ok is what the Telegram send returns
RECURSIVE mitigation_loop(_, _, _, _, _, _, _)
mitigation_loop(st, c, d, stored_active, k, t, send_ok) ==
    IF k > Len(stored_active)
    THEN st
    ELSE LET row     == stored_active[k]
             marked  == mark_mitigated(st.rows, row.zone_key, t)
             attempt == [kind |-> "mitigation", zone_key |-> row.zone_key,
                         at |-> t, ok |-> send_ok]
             after   ==
                IF ~check_mitigation(d, row.zone_high, row.zone_low, row.datetime_end)
                THEN st
                ELSE IF ~(row.score >= c.ALERT_MIN_SCORE /\ row.mitigation_alert_sent = 0)
                THEN [rows |-> marked, sent |-> st.sent]
                ELSE [rows |-> IF send_ok
                               THEN mark_mitigation_alert_sent(marked, row.zone_key)
                               ELSE marked,
                      sent |-> Append(st.sent, attempt)]
         IN  mitigation_loop(after, c, d, stored_active, k + 1, t, send_ok)

\* zone["score"] >= config.ALERT_MIN_SCORE and not zone["mitigated"]
wants_new_zone_alert(c, zone) == zone.score >= c.ALERT_MIN_SCORE /\ ~zone.mitigated

\* the new-zone alert loop over newly_inserted from entry k on
RECURSIVE new_zone_alert_loop(_, _, _, _, _, _)
new_zone_alert_loop(st, c, newly_inserted, k, t, send_ok) ==
    IF k > Len(newly_inserted)
    THEN st
    ELSE LET entry   == newly_inserted[k]
             attempt == [kind |-> "new_zone", zone_key |-> entry.zone_key,
                         zone |-> entry.zone, at |-> t, ok |-> send_ok]
             after   ==
                IF ~wants_new_zone_alert(c, entry.zone)
                THEN st
                ELSE [rows |-> IF send_ok
                               THEN mark_alert_sent(st.rows, entry.zone_key)
                               ELSE st.rows,
                      sent |-> Append(st.sent, attempt)]
         IN  new_zone_alert_loop(after, c, newly_inserted, k + 1, t, send_ok)

\* _scan_instrument from the mitigation check on; upserted is what the
\* upsert loop left
scan_alerts(upserted, sent, c, d, t, send_ok) ==
    LET stored_active == get_active_zones(upserted.rows, ScanInstrument)
        checked       == mitigation_loop([rows |-> upserted.rows, sent |-> sent],
                                         c, d, stored_active, 1, t, send_ok)
    IN  new_zone_alert_loop(checked, c, upserted.newly_inserted, 1, t, send_ok)

InitScanner ==
    /\ cfg \in ScanConfigs
    /\ df \in [1..(min_bars(cfg) - 1) -> ScanPalette]
    /\ pc = "ready"
    /\ raw_zones = << >>
    /\ kept = << >>
    /\ signal = NoSignal
    /\ StoreInit
    /\ alerts = << >>
    /\ scored = NoScore
    /\ MainNotRunning

\* the next 5-minute candle of the instrument closes
candle_close ==
    /\ Len(df) < min_bars(cfg) - 1 + MaxNewCandles
    /\ \E bar \in ScanPalette : df' = Append(df, bar)
    /\ UNCHANGED <<cfg, pc, raw_zones, kept, signal, store_vars, alerts, scored, main_vars>>

\* what one call of _scan_instrument does to the store and the alerts;
\* fetched is whether fetch_ohlcv returned
scan_instrument_call ==
    /\ \E fetched \in BOOLEAN :
          IF ~fetched \/ Len(df) = 0 \/ Len(df) < min_bars(cfg)
          THEN UNCHANGED <<db, alerts>>
          ELSE LET zones    == find_zones_result(df, cfg)
                   upserted == upsert_loop(db, zones, 1, now, << >>)
               IN  \E send_ok \in BOOLEAN :
                       LET result == scan_alerts(upserted, alerts, cfg, df, now, send_ok)
                       IN  /\ db' = result.rows
                           /\ alerts' = result.sent
    /\ now' = now + 1

\* one call of _scan_instrument
scan_instrument ==
    /\ now < MaxScans
    /\ scan_instrument_call
    /\ UNCHANGED <<detector_vars, last_call, scored, main_vars>>

NextScanner ==
    \/ candle_close
    \/ scan_instrument

SpecScanner == InitScanner /\ [][NextScanner]_vars

(***************************************************************************)
(* scanner.main: the scan loop, its sleeps and the signal handler.  The    *)
(* handler runs between any two steps of main.  fetch_ohlcv returns the    *)
(* candles MainTape for ScanInstrument and too few bars for every other    *)
(* instrument of the list.                                                 *)
(***************************************************************************)
MaxInstruments == 2

MaxFullScans == 2

\* tradingsymbols of the F&O list, sorted as get_fo_equity_instruments sorts
InstrumentPool == << "RELIANCE", "TCS", "WIPRO", "ZEEL" >>

\* ten 5-minute candles with a supply zone before the drop
MainTape ==
    [ i \in 1..10 |->
        IF i \in 5..7 THEN [high |-> 6, low |-> 6, close |-> 6]
                      ELSE [high |-> 2, low |-> 1, close |-> 1] ]

\* the entries of the event log of a given kind
EventsOf(kind) == { i \in 1..Len(events) : events[i] = kind }

\* variant: the instrument loop without its shutdown check
for_head_without_check(flag, i, total) ==
    IF i > total THEN "scan_done" ELSE "call"

\* the head of run_full_scan's loop: where it goes with _shutdown = flag
for_head(flag, i, total) ==
    IF i > total THEN "scan_done"
    ELSE IF flag THEN "scan_done"
    ELSE "call"

\* while time.monotonic() < deadline and not _shutdown
sleep_continues(due, flag) == ~due /\ ~flag

InitMain ==
    /\ cfg \in ScanConfigs
    /\ df = MainTape
    /\ pc = "ready"
    /\ raw_zones = << >>
    /\ kept = << >>
    /\ signal = NoSignal
    /\ StoreInit
    /\ alerts = << >>
    /\ scored = NoScore
    /\ shutdown = FALSE
    /\ main_pc = "main"
    /\ instruments = << >>
    /\ idx = 0
    /\ events = << >>

\* _handle_signal, on SIGINT or SIGTERM
handle_signal ==
    /\ main_pc # "exited"
    /\ ~shutdown
    /\ shutdown' = TRUE
    /\ events' = Append(events, "signal")
    /\ UNCHANGED <<detector_vars, store_vars, alerts, scored, main_pc, instruments, idx>>

\* main up to its loop: sys.exit(1) without ACCESS_TOKEN or without a client
main_startup ==
    /\ main_pc = "main"
    /\ \E ok \in BOOLEAN : main_pc' = IF ok THEN "while" ELSE "exited"
    /\ UNCHANGED <<detector_vars, store_vars, alerts, scored, shutdown, instruments, idx, events>>

\* while not _shutdown
main_while ==
    /\ main_pc = "while"
    /\ shutdown \/ Cardinality(EventsOf("full_scan")) < MaxFullScans
    /\ main_pc' = IF shutdown THEN "exited" ELSE "is_market_hours"
    /\ UNCHANGED <<detector_vars, store_vars, alerts, scored, shutdown, instruments, idx, events>>

\* if _is_market_hours()
main_is_market_hours ==
    /\ main_pc = "is_market_hours"
    /\ \E open \in BOOLEAN :
          main_pc' = IF open THEN "run_full_scan" ELSE "sleep_until_market_open"
    /\ UNCHANGED <<detector_vars, store_vars, alerts, scored, shutdown, instruments, idx, events>>

\* run_full_scan up to its loop: the instrument list is fetched or the scan
\* returns
run_full_scan_start ==
    /\ main_pc = "run_full_scan"
    /\ events' = Append(events, "full_scan")
    /\ \E failed \in BOOLEAN : \E total \in 0..MaxInstruments :
          IF failed
          THEN main_pc' = "after_scan" /\ UNCHANGED <<instruments, idx>>
          ELSE /\ instruments' = SubSeq(InstrumentPool, 1, total)
               /\ idx' = 1
               /\ main_pc' = "for"
    /\ UNCHANGED <<detector_vars, store_vars, alerts, scored, shutdown>>

\* for idx, inst in enumerate(instruments, start=1): if _shutdown: break
run_full_scan_for ==
    /\ main_pc = "for"
    /\ main_pc' = for_head(shutdown, idx, Len(instruments))
    /\ UNCHANGED <<detector_vars, store_vars, alerts, scored, shutdown, instruments, idx, events>>

\* result = _scan_instrument(...)
run_full_scan_call ==
    /\ main_pc = "call"
    /\ events' = Append(events, "scan_instrument")
    /\ IF instruments[idx] = ScanInstrument
       THEN scan_instrument_call
       ELSE now' = now + 1 /\ UNCHANGED <<db, alerts>>
    /\ main_pc' = "delay"
    /\ UNCHANGED <<detector_vars, last_call, scored, shutdown, instruments, idx>>

\* if idx < total: time.sleep(config.SCAN_DELAY_SECONDS), and the next idx
run_full_scan_delay ==
    /\ main_pc = "delay"
    /\ idx' = idx + 1
    /\ main_pc' = "for"
    /\ UNCHANGED <<detector_vars, store_vars, alerts, scored, shutdown, instruments, events>>

\* after the loop: the log line; SEND_SCAN_SUMMARY is False
run_full_scan_done ==
    /\ main_pc = "scan_done"
    /\ main_pc' = "after_scan"
    /\ UNCHANGED <<detector_vars, store_vars, alerts, scored, shutdown, instruments, idx, events>>

\* if not _shutdown: _sleep_until_next_candle()
main_after_scan ==
    /\ main_pc = "after_scan"
    /\ main_pc' = IF shutdown THEN "while" ELSE "sleep_until_next_candle"
    /\ UNCHANGED <<detector_vars, store_vars, alerts, scored, shutdown, instruments, idx, events>>

\* the head of _sleep_until_next_candle's loop; due is whether the deadline
\* has passed
sleep_until_next_candle ==
    /\ main_pc = "sleep_until_next_candle"
    /\ \E due \in BOOLEAN :
          main_pc' = IF sleep_continues(due, shutdown) THEN "candle_nap" ELSE "while"
    /\ UNCHANGED <<detector_vars, store_vars, alerts, scored, shutdown, instruments, idx, events>>

\* time.sleep(min(5.0, deadline - time.monotonic()))
candle_nap ==
    /\ main_pc = "candle_nap"
    /\ main_pc' = "sleep_until_next_candle"
    /\ UNCHANGED <<detector_vars, store_vars, alerts, scored, shutdown, instruments, idx, events>>

\* the head of _sleep_until_market_open's loop
sleep_until_market_open ==
    /\ main_pc = "sleep_until_market_open"
    /\ \E due \in BOOLEAN :
          main_pc' = IF sleep_continues(due, shutdown) THEN "open_nap" ELSE "while"
    /\ UNCHANGED <<detector_vars, store_vars, alerts, scored, shutdown, instruments, idx, events>>

\* time.sleep(min(30.0, deadline - time.monotonic()))
open_nap ==
    /\ main_pc = "open_nap"
    /\ main_pc' = "sleep_until_market_open"
    /\ UNCHANGED <<detector_vars, store_vars, alerts, scored, shutdown, instruments, idx, events>>

\* the steps of the main thread
main_thread ==
    \/ main_startup
    \/ main_while
    \/ main_is_market_hours
    \/ run_full_scan_start
    \/ run_full_scan_for
    \/ run_full_scan_call
    \/ run_full_scan_delay
    \/ run_full_scan_done
    \/ main_after_scan
    \/ sleep_until_next_candle
    \/ candle_nap
    \/ sleep_until_market_open
    \/ open_nap

NextMain ==
    \/ handle_signal
    \/ main_thread

\* the main thread is the only thread and each of its steps returns: it keeps
\* running while it has a step to take
SpecMain == InitMain /\ [][NextMain]_vars /\ WF_vars(main_thread)

(***************************************************************************)
(* The scorer.  _score_zone called on its own with arguments around its    *)
(* band edges, beside find_zones, which calls it for every candidate.      *)
(***************************************************************************)
MaxBaseLen == 3

\* impulse_atr_ratio values: tenths from 0.0 to 5.0 around 1.8 and 3.0, and
\* 9/5 and 6/2
ScorerRatios ==
    { [num |-> n, den |-> 10] : n \in {0, 17, 18, 19, 29, 30, 31, 50} }
      \cup { [num |-> 9, den |-> 5], [num |-> 6, den |-> 2] }

\* atr_val values: 10, 12.5 and 0
ScorerAtrs ==
    { [nan |-> FALSE, num |-> 10, den |-> 1],
      [nan |-> FALSE, num |-> 25, den |-> 2],
      [nan |-> FALSE, num |-> 0,  den |-> 1] }

ScorerArgs ==
    [ zone_type         : {"demand", "supply"},
      impulse_atr_ratio : ScorerRatios,
      base_range        : 0..5,
      atr_val           : ScorerAtrs,
      is_fresh          : BOOLEAN,
      fvg_present       : BOOLEAN,
      bos_aligned       : BOOLEAN,
      base_len          : 1..MaxBaseLen ]

InitScorer ==
    \/ Init
    \/ /\ df = << >>
       /\ cfg = DefaultConfig
       /\ pc = "to_score"
       /\ raw_zones = << >>
       /\ kept = << >>
       /\ signal = NoSignal
       /\ StoreInit
       /\ alerts = << >>
       /\ scored \in [ args : ScorerArgs ]
       /\ MainNotRunning

call_score_zone ==
    /\ pc = "to_score"
    /\ LET a == scored.args
       IN  scored' = [ args     |-> a,
                       returned |-> score_zone(a.zone_type, a.impulse_atr_ratio,
                                               a.base_range, a.atr_val, a.is_fresh,
                                               a.fvg_present, a.bos_aligned, a.base_len) ]
    /\ pc' = "scored"
    /\ UNCHANGED <<df, cfg, raw_zones, kept, signal, store_vars, alerts, main_vars>>

NextScorer ==
    \/ call_score_zone
    \/ find_zones

SpecScorer == InitScorer /\ [][NextScorer]_vars

(***************************************************************************)
(* Properties of the returned list.                                        *)
(***************************************************************************)
Range(seq) == { seq[k] : k \in 1..Len(seq) }

\* the open-interval overlap test of two price bands
OpenOverlap(a, b) == a.zone_low < b.zone_high /\ a.zone_high > b.zone_low

\* C1: no two returned zones of the same type have overlapping price bounds
\* under the open-interval test; zones of opposite type are not constrained.
C1_NoSameTypeOverlap ==
    pc = "returned" =>
        \A a, b \in 1..Len(kept) :
            (a # b /\ kept[a].type = kept[b].type) => ~OpenOverlap(kept[a], kept[b])

\* two zones of one type are returned, after a third of that type was removed
\* for overlapping, next to an overlapping zone of the opposite type
C1_Witness ==
    /\ pc = "returned"
    /\ \E a, b \in 1..Len(kept) :
          /\ a # b
          /\ kept[a].type = kept[b].type
          /\ \E k \in 1..Len(raw_zones) :
                /\ raw_zones[k] \notin Range(kept)
                /\ raw_zones[k].type = kept[a].type
          /\ \E o \in 1..Len(kept) :
                kept[o].type # kept[a].type /\ OpenOverlap(kept[o], kept[a])

\* C2: every returned zone has zone_high strictly above zone_low.
C2_ZoneHighAboveLow ==
    pc = "returned" => \A k \in 1..Len(kept) : kept[k].zone_high > kept[k].zone_low

\* C3: every returned zone's score lies in [0.0, 6.0] and is the sum of its six
\* score_details entries; impulse and tightness are 0.0, 0.5 or 1.0, and
\* freshness, fvg, bos and clean_base are 0.0 or 1.0 (all in tenths).
C3_ScoreIsSumInRange ==
    pc = "returned" =>
        \A k \in 1..Len(kept) :
            LET z == kept[k]
                sd == z.score_details
            IN  /\ DOMAIN sd = {"impulse", "tightness", "freshness", "fvg", "bos", "clean_base"}
                /\ sd.impulse \in {0, 5, 10}
                /\ sd.tightness \in {0, 5, 10}
                /\ sd.freshness \in {0, 10}
                /\ sd.fvg \in {0, 10}
                /\ sd.bos \in {0, 10}
                /\ sd.clean_base \in {0, 10}
                /\ z.score = sd.impulse + sd.tightness + sd.freshness
                               + sd.fvg + sd.bos + sd.clean_base
                /\ 0 <= z.score
                /\ z.score <= 60

\* a returned zone with the half grade for impulse and full points for gap and
\* structure break
C3_Witness ==
    /\ pc = "returned"
    /\ \E k \in 1..Len(kept) :
          /\ kept[k].score_details.impulse = 5
          /\ kept[k].score_details.bos = 10
          /\ kept[k].score_details.fvg = 10

\* C4: the returned list is ordered by score, non-increasing, also after the
\* overlap removal.
C4_SortedByScore ==
    pc = "returned" =>
        \A k \in 1..(Len(kept) - 1) : kept[k].score >= kept[k + 1].score

\* after an overlap removal the first returned zone outscores the second,
\* though its base ends later in the series
C4_Witness ==
    /\ pc = "returned"
    /\ Len(kept) >= 2
    /\ Len(raw_zones) > Len(kept)
    /\ kept[1].score > kept[2].score
    /\ kept[1].base_end_idx > kept[2].base_end_idx

\* the base-end indices the generator loop visits: range(bmc, n - bmc - 1)
LoopIndices == cfg.BASE_MAX_CANDLES..(Len(df) - cfg.BASE_MAX_CANDLES - 2)

\* the zones of all (i, base_len, zone_type) combinations of this invocation
\* that reach the scorer, whatever their score
ScoredZones ==
    LET sig == signals(df, cfg)
    IN  { scored_zone(df, sig, base_of(df, t[1], t[2]), t[3]) :
            t \in { u \in LoopIndices \X (1..cfg.BASE_MAX_CANDLES) \X {"demand", "supply"} :
                      qualifies(cfg, sig.atr[u[1]], base_of(df, u[1], u[2]), u[3]) } }

\* C5: no returned zone scores strictly below MIN_SCORE; a candidate scoring
\* exactly MIN_SCORE passes the score filter (it is in raw_zones); and with
\* MIN_SCORE above 6.0 nothing is returned.
C5_MinScoreFilter ==
    pc = "returned" =>
        /\ \A k \in 1..Len(kept) : kept[k].score >= cfg.MIN_SCORE
        /\ \A z \in ScoredZones : z.score = cfg.MIN_SCORE => z \in Range(raw_zones)
        /\ cfg.MIN_SCORE > 60 => kept = << >>

\* a zone scoring exactly the (non-zero) threshold is returned while another
\* scored candidate of the same series fell below the threshold
C5_Witness ==
    /\ pc = "returned"
    /\ cfg.MIN_SCORE > 0
    /\ \E k \in 1..Len(kept) : kept[k].score = cfg.MIN_SCORE
    /\ \E z \in ScoredZones : z.score < cfg.MIN_SCORE

C7_MitigatedIff ==
    pc = "returned" =>
        \A k \in 1..Len(kept) :
            LET z == kept[k]
                intruded == \E b \in (z.base_end_idx + 1)..(Len(df) - 1) :
                                Low(df, b) < z.zone_high /\ High(df, b) > z.zone_low
            IN  /\ z.mitigated <=> intruded
                /\ z.score_details.freshness = (IF z.mitigated THEN 0 ELSE 10)

\* a returned zone whose very next bar re-enters the base bounds
C7_Witness ==
    /\ pc = "returned"
    /\ \E k \in 1..Len(kept) :
          LET z == kept[k]
          IN  /\ z.mitigated
              /\ z.score_details.freshness = 0
              /\ Low(df, z.base_end_idx + 1) < z.zone_high
              /\ High(df, z.base_end_idx + 1) > z.zone_low

\* C8: on every series too short for one pass of the generator loop, the
\* empty series included, find_zones returns an empty list and raises nothing.
C8_TotalOnShortInputs ==
    (pc # "ready" /\ Len(df) <= 2 * cfg.BASE_MAX_CANDLES + 1) =>
        (pc = "returned" /\ kept = << >>)

\* the thresholds compared: every half point from 0.0 to 6.5, in tenths
Thresholds == { 5 * k : k \in 0..13 }

\* C9: raising MIN_SCORE never increases the number of returned zones: for the
\* same series and otherwise the same configuration, every threshold at or
\* above the invocation's own returns at most as many zones as it returned.
C9_MonotoneInMinScore ==
    pc = "returned" =>
        \A t \in Thresholds :
            t >= cfg.MIN_SCORE =>
                Len(find_zones_result(df, [cfg EXCEPT !.MIN_SCORE = t])) <= Len(kept)

\* after an overlap removal, a higher threshold returns fewer zones, but some
C9_Witness ==
    /\ pc = "returned"
    /\ Len(raw_zones) > Len(kept)
    /\ \E t \in Thresholds :
          /\ t > cfg.MIN_SCORE
          /\ Len(find_zones_result(df, [cfg EXCEPT !.MIN_SCORE = t])) < Len(kept)
          /\ Len(find_zones_result(df, [cfg EXCEPT !.MIN_SCORE = t])) > 0

(***************************************************************************)
(* Edits of a series at or before a bar index (0-based, as in the code).   *)
(***************************************************************************)
ReplaceBar(d, k, bar) == [d EXCEPT ![k + 1] = bar]

RemoveBar(d, k) == SubSeq(d, 1, k) \o SubSeq(d, k + 2, Len(d))

PrependBar(d, bar) == << bar >> \o d

\* C11: the fresh flag of a base depends only on its price bounds and on the
\* bars strictly after its last bar: replacing or removing a bar at or before
\* the base end, or prepending a bar, leaves the value of _is_fresh unchanged
\* when the bounds and the later bars are kept.
C11_FreshDependsOnLaterBars ==
    pc = "returned" =>
        \A k \in 1..Len(raw_zones) :
            LET z     == raw_zones[k]
                e     == z.base_end_idx
                fresh == is_fresh(df, e, z.zone_high, z.zone_low)
            IN  /\ \A bar \in BarPalette :
                      /\ is_fresh(PrependBar(df, bar), e + 1, z.zone_high, z.zone_low) = fresh
                      /\ \A j \in 0..e :
                            is_fresh(ReplaceBar(df, j, bar), e, z.zone_high, z.zone_low) = fresh
                /\ \A j \in 0..e :
                      is_fresh(RemoveBar(df, j), e - 1, z.zone_high, z.zone_low) = fresh

\* a fresh zone of positive height with bars after it: its own base bar lies
\* inside the bounds and is not counted
C11_Witness ==
    /\ pc = "returned"
    /\ \E k \in 1..Len(raw_zones) :
          LET z == raw_zones[k]
          IN  /\ ~z.mitigated
              /\ z.zone_high > z.zone_low
              /\ z.base_end_idx + 1 < Len(df)
              /\ Low(df, z.base_end_idx) < z.zone_high
              /\ High(df, z.base_end_idx) > z.zone_low

\* C12: every returned zone is labelled 'High' exactly when its score is at
\* least 5.0 and 'Medium-High' otherwise, whatever MIN_SCORE is; no other
\* label occurs.
C12_ProbabilityLabel ==
    pc = "returned" =>
        \A k \in 1..Len(kept) :
            /\ kept[k].probability \in {"High", "Medium-High"}
            /\ kept[k].probability = "High" <=> kept[k].score >= 50

\* MIN_SCORE below 4.0: one result holds a zone scoring exactly 5.0 and a
\* zone scoring under 4.0
C12_Witness ==
    /\ pc = "returned"
    /\ \E k \in 1..Len(kept) : kept[k].score = 50 /\ kept[k].probability = "High"
    /\ \E k \in 1..Len(kept) : kept[k].score < 40 /\ kept[k].probability = "Medium-High"

\* all highs and lows of the series are one price
FlatSeries(d) ==
    \A i \in 0..(Len(d) - 1) : High(d, i) = High(d, 0) /\ Low(d, i) = High(d, 0)

\* C13: no zone is produced at a base-end bar whose ATR is NaN or zero, for
\* any base length; and a flat series of at least one bar yields no candidate
\* and an empty result, without raising.
C13_UnusableVolatilitySkipped ==
    /\ pc = "returned" =>
          LET atr == compute_atr(df, cfg.ATR_PERIOD).value
          IN  \A k \in 1..Len(raw_zones) :
                  /\ ~atr[raw_zones[k].base_end_idx].nan
                  /\ atr[raw_zones[k].base_end_idx].num # 0
    /\ (pc # "ready" /\ Len(df) >= 1 /\ FlatSeries(df)) =>
          (pc = "returned" /\ raw_zones = << >> /\ kept = << >>)

\* the loop passes a bar with NaN ATR and a bar with zero ATR, and a later
\* base-end bar still yields a zone
C13_Witness ==
    /\ pc = "returned"
    /\ kept # << >>
    /\ LET atr == compute_atr(df, cfg.ATR_PERIOD).value
       IN  /\ \E i \in LoopIndices : atr[i].nan
           /\ \E i \in LoopIndices : ~atr[i].nan /\ atr[i].num = 0

(***************************************************************************)
(* Properties of the signal passes.                                        *)
(***************************************************************************)
\* the true range as the ATR definition states it
StatedTrueRange(i) ==
    IF i = 0
    THEN High(df, 0) - Low(df, 0)
    ELSE SetMax({ High(df, i) - Low(df, i),
                  Abs(High(df, i) - Close(df, i - 1)),
                  Abs(Low(df, i) - Close(df, i - 1)) })

RECURSIVE StatedTrueRangeSum(_)
StatedTrueRangeSum(k) ==
    IF k = 0 THEN 0 ELSE StatedTrueRangeSum(k - 1) + StatedTrueRange(k - 1)

\* C16: whenever _compute_atr returns for period p on n bars, the value at
\* index i is NaN exactly for i < p - 1 when n >= p and for every i when
\* n < p; the value at p - 1 is the mean of the first p true ranges; for
\* i >= p, value[i] = value[i-1] * (1 - 1/p) + trueRange[i] / p; and every
\* defined value is non-negative (all bars here have high >= low).
C16_WilderSmoothing ==
    pc = "atr" =>
        LET p == cfg.ATR_PERIOD
            n == Len(df)
        IN  /\ DOMAIN signal = 0..(n - 1)
            /\ \A i \in 0..(n - 1) :
                  /\ signal[i].nan <=> (n < p \/ i < p - 1)
                  /\ ~signal[i].nan => signal[i].den > 0 /\ signal[i].num >= 0
                  /\ (n >= p /\ i = p - 1) =>
                        signal[i].num * p = StatedTrueRangeSum(p) * signal[i].den
                  /\ (n >= p /\ i >= p) =>
                        signal[i].num * (signal[i - 1].den * p)
                          = signal[i].den * (signal[i - 1].num * (p - 1)
                                              + StatedTrueRange(i) * signal[i - 1].den)

\* a period of 2 or more on a longer series: a NaN head, a seed, and a
\* smoothed bar whose true range is the gap to the previous close
C16_Witness ==
    /\ pc = "atr"
    /\ cfg.ATR_PERIOD >= 2
    /\ Len(df) > cfg.ATR_PERIOD
    /\ signal[0].nan
    /\ \E i \in cfg.ATR_PERIOD..(Len(df) - 1) :
          /\ StatedTrueRange(i) > High(df, i) - Low(df, i)
          /\ signal[i].num > 0

\* C17: bar i is a swing high exactly when n <= i < length - n and high[i]
\* is the largest high of the bars i-n..i+n, and a swing low exactly when
\* n <= i < length - n and low[i] is the smallest low of those bars; bars
\* without a full window are never marked, tied bars are each marked, and one
\* bar may carry both markers.
C17_SwingMarkers ==
    pc = "swings" =>
        LET n      == cfg.LOOKBACK_SWINGS
            length == Len(df)
        IN  /\ DOMAIN signal.swing_high = 0..(length - 1)
            /\ DOMAIN signal.swing_low = 0..(length - 1)
            /\ \A i \in 0..(length - 1) :
                  /\ signal.swing_high[i] <=>
                        /\ n <= i /\ i < length - n
                        /\ \A j \in (i - n)..(i + n) : High(df, j) <= High(df, i)
                  /\ signal.swing_low[i] <=>
                        /\ n <= i /\ i < length - n
                        /\ \A j \in (i - n)..(i + n) : Low(df, j) >= Low(df, i)

\* two neighbouring bars tied for the highest high are both swing highs, the
\* first of them is a swing low as well, and the edge bars carry no marker
C17_Witness ==
    /\ pc = "swings"
    /\ cfg.LOOKBACK_SWINGS >= 1
    /\ \E i \in 0..(Len(df) - 2) :
          /\ signal.swing_high[i] /\ signal.swing_high[i + 1]
          /\ High(df, i) = High(df, i + 1)
          /\ signal.swing_low[i]
    /\ ~signal.swing_high[0] /\ ~signal.swing_low[Len(df) - 1]
    /\ \E i \in 1..(Len(df) - 2) : Low(df, i) # Low(df, i + 1)

\* a series on which the latest swing high lies below the latest swing low
BothBreakSeries ==
    << [high |-> 2, low |-> 1, close |-> 1],
       [high |-> 2, low |-> 1, close |-> 1],
       [high |-> 2, low |-> 1, close |-> 1],
       [high |-> 6, low |-> 5, close |-> 6],
       [high |-> 7, low |-> 5, close |-> 7],
       [high |-> 8, low |-> 5, close |-> 8],
       [high |-> 9, low |-> 3, close |-> 4] >>

\* C18: bar i carries the bullish break flag exactly when some bar j <= i is
\* a swing high and close[i] is above the high of the latest such bar, and
\* the bearish flag exactly when some bar j <= i is a swing low and close[i]
\* is below the low of the latest such bar; before the first marker both are
\* false.  Each flag is decided from the bar's own close and the latest
\* marker alone: not from the other flag (on BothBreakSeries the last bar
\* carries both) and not from the flag of the bar before.
C18_BreakOfStructure ==
    /\ pc = "bos" =>
          \A i \in 0..(Len(df) - 1) :
              /\ signal.bullish_bos[i] <=>
                    \E j \in 0..i :
                        /\ signal.swing_high[j]
                        /\ \A m \in (j + 1)..i : ~signal.swing_high[m]
                        /\ Close(df, i) > High(df, j)
              /\ signal.bearish_bos[i] <=>
                    \E j \in 0..i :
                        /\ signal.swing_low[j]
                        /\ \A m \in (j + 1)..i : ~signal.swing_low[m]
                        /\ Close(df, i) < Low(df, j)
    /\ LET sw  == compute_swings(BothBreakSeries, 1)
           bos == compute_bos(BothBreakSeries, sw.swing_high, sw.swing_low)
       IN  bos.bullish_bos[6] /\ bos.bearish_bos[6]

\* the close stays above the latest swing high for two bars that are not
\* swing bars themselves: both carry the bullish flag, the bars before the
\* first marker carry none
C18_Witness ==
    /\ pc = "bos"
    /\ \E i \in 1..(Len(df) - 1) :
          /\ signal.bullish_bos[i - 1] /\ signal.bullish_bos[i]
          /\ ~signal.swing_high[i - 1] /\ ~signal.swing_high[i]
    /\ ~signal.swing_high[0] /\ ~signal.swing_low[0]
    /\ ~signal.bullish_bos[0] /\ ~signal.bearish_bos[0]

\* C19: an interior bar i (0 < i < length - 1) is a bullish gap exactly when
\* high[i-1] < low[i+1] and a bearish gap exactly when low[i-1] > high[i+1];
\* the first and the last bar are never marked, for every length, 0, 1 and 2
\* included.
C19_FairValueGap ==
    pc = "fvg" =>
        LET length == Len(df)
        IN  /\ DOMAIN signal.bullish_fvg = 0..(length - 1)
            /\ DOMAIN signal.bearish_fvg = 0..(length - 1)
            /\ \A i \in 0..(length - 1) :
                  /\ signal.bullish_fvg[i] <=>
                        (0 < i /\ i < length - 1 /\ High(df, i - 1) < Low(df, i + 1))
                  /\ signal.bearish_fvg[i] <=>
                        (0 < i /\ i < length - 1 /\ Low(df, i - 1) > High(df, i + 1))
            /\ length <= 2 =>
                  \A i \in 0..(length - 1) :
                      ~signal.bullish_fvg[i] /\ ~signal.bearish_fvg[i]

\* a series with a bullish gap and a bearish gap whose first and last bars
\* are unmarked although their one neighbour is far away
C19_Witness ==
    /\ pc = "fvg"
    /\ \E i \in 1..(Len(df) - 2) : signal.bullish_fvg[i]
    /\ \E i \in 1..(Len(df) - 2) : signal.bearish_fvg[i]
    /\ ~signal.bullish_fvg[0] /\ ~signal.bearish_fvg[Len(df) - 1]
    /\ High(df, 0) < Low(df, 1)
    /\ Low(df, Len(df) - 2) > High(df, Len(df) - 1)

\* C20: every returned zone has a base of 1..BASE_MAX_CANDLES bars, bounds
\* equal to the highest high and the lowest low of the base bars, a height of
\* at most BASE_RANGE_ATR_PCT times the ATR at the base-end bar, and an
\* impulse over the bars base_end_idx..base_end_idx+3 (cut at the end of the
\* series) of at least IMPULSE_ATR_MULT times that ATR: the highest high of
\* those bars minus zone_high for a demand zone, zone_low minus their lowest
\* low for a supply zone.  So impulse_ratio >= IMPULSE_ATR_MULT.
C20_BaseAndImpulse ==
    pc = "returned" =>
        LET atr == compute_atr(df, cfg.ATR_PERIOD).value
        IN  \A k \in 1..Len(kept) :
                LET z       == kept[k]
                    first   == z.base_start_idx
                    last    == z.base_end_idx
                    a       == atr[last]
                    ahead   == last..Min2(last + 3, Len(df) - 1)
                    impulse == IF z.type = "demand"
                               THEN SetMax({ High(df, j) : j \in ahead }) - z.zone_high
                               ELSE z.zone_low - SetMin({ Low(df, j) : j \in ahead })
                IN  /\ last - first + 1 \in 1..cfg.BASE_MAX_CANDLES
                    /\ first >= 0 /\ last < Len(df)
                    /\ z.zone_high = SetMax({ High(df, j) : j \in first..last })
                    /\ z.zone_low = SetMin({ Low(df, j) : j \in first..last })
                    /\ ~a.nan /\ a.num > 0 /\ a.den > 0
                    /\ 10 * (z.zone_high - z.zone_low) * a.den <= cfg.BASE_RANGE_ATR_PCT * a.num
                    /\ 10 * impulse * a.den >= cfg.IMPULSE_ATR_MULT * a.num
                    /\ z.impulse_ratio.num * a.num = impulse * a.den * z.impulse_ratio.den
                    /\ z.impulse_ratio.den > 0
                    /\ 10 * z.impulse_ratio.num >= cfg.IMPULSE_ATR_MULT * z.impulse_ratio.den

\* IMPULSE_ATR_MULT = 3.5: a returned demand zone of positive height whose
\* impulse is reached only on the last bar of the look-ahead
C20_Witness ==
    /\ pc = "returned"
    /\ cfg.IMPULSE_ATR_MULT = 35
    /\ \E k \in 1..Len(kept) :
          LET z == kept[k]
          IN  /\ z.zone_high > z.zone_low
              /\ z.type = "demand"
              /\ z.base_end_idx + 3 < Len(df)
              /\ \A j \in z.base_end_idx..(z.base_end_idx + 2) : High(df, j) <= z.zone_high
              /\ High(df, z.base_end_idx + 3) > z.zone_high

(***************************************************************************)
(* Properties of the zone store.                                           *)
(***************************************************************************)
\* x thousandths rounded to the nearest hundredth
NearestHundredth(x) ==
    CHOOSE h \in (x \div 10)..(x \div 10 + 1) : 2 * Abs(10 * h - x) < 10

\* the identity of a zone: instrument, type, start time cut to the second,
\* both bounds rounded to two decimals
StatedKey(instrument, zone) ==
    << instrument, zone.type, zone.datetime_start.s,
       NearestHundredth(zone.zone_high), NearestHundredth(zone.zone_low) >>

RowsOfKey(rows, key) == { i \in 1..Len(rows) : rows[i].zone_key = key }

\* what a step that is a call of upsert_zone does to the table
UpsertContract ==
    LET call == last_call'
        key  == StatedKey(call.instrument, call.zone)
        had  == RowsOfKey(db, key)
    IN  /\ call.returned <=> had = {}
        /\ Cardinality(RowsOfKey(db', key)) = 1
        /\ \A i \in 1..Len(db') : RowsOfKey(db', db'[i].zone_key) = {i}
        /\ had = {} =>
              /\ Len(db') = Len(db) + 1
              /\ SubSeq(db', 1, Len(db)) = db
        /\ had # {} =>
              /\ Len(db') = Len(db)
              /\ \A i \in 1..Len(db) :
                    /\ i \notin had => db'[i] = db[i]
                    /\ db'[i] = [db[i] EXCEPT !.last_updated = db'[i].last_updated,
                                              !.mitigated = db'[i].mitigated]

\* C14: upsert_zone is an idempotent insert keyed by instrument, type, start
\* time cut to the second and bounds rounded to two decimals: it returns
\* True exactly when no row with that key existed; afterwards there is
\* exactly one row per key; and on an existing key it changes nothing but
\* last_updated and mitigated of that row, so score, bounds, first_seen,
\* alert_sent and mitigation_alert_sent stay as they were.
C14_UpsertIdempotent ==
    [][(now' # now /\ last_call'.op = "upsert_zone") => UpsertContract]_vars

\* an upsert on an existing key, from a zone dict that differs from the
\* stored row in score, upper bound, start time and mitigated flag, after the
\* alert of the row had been recorded
C14_Witness ==
    /\ last_call.op = "upsert_zone"
    /\ ~last_call.returned
    /\ \E i \in 1..Len(db) :
          /\ db[i].zone_key = StatedKey(last_call.instrument, last_call.zone)
          /\ db[i].score # last_call.zone.score
          /\ db[i].zone_high # last_call.zone.zone_high
          /\ db[i].datetime_start # last_call.zone.datetime_start
          /\ db[i].alert_sent = 1
          /\ db[i].mitigated = 1
          /\ db[i].first_seen < db[i].last_updated
    /\ Len(db) = 1

(***************************************************************************)
(* Properties of the scanner.                                              *)
(***************************************************************************)
\* the positions of the new-zone sends in the log of attempted sends
NewZoneAttempts == { i \in 1..Len(alerts) : alerts[i].kind = "new_zone" }

\* C15: over any sequence of scans of the instrument, a new-zone alert is
\* attempted at most once per zone key; it is attempted in the scan in which
\* upsert_zone inserted the key, and only for a zone dict with score >=
\* ALERT_MIN_SCORE that is not mitigated; and a row has alert_sent = 1 only
\* if a send for its key returned success.
C15_NewZoneAlertOnce ==
    /\ \A i \in NewZoneAttempts : \A j \in NewZoneAttempts :
          alerts[i].zone_key = alerts[j].zone_key => i = j
    /\ \A i \in NewZoneAttempts :
          /\ \E r \in 1..Len(db) :
                /\ db[r].zone_key = alerts[i].zone_key
                /\ db[r].first_seen = alerts[i].at
          /\ alerts[i].zone.score >= cfg.ALERT_MIN_SCORE
          /\ ~alerts[i].zone.mitigated
    /\ \A r \in 1..Len(db) :
          db[r].alert_sent = 1 =>
              \E i \in NewZoneAttempts :
                  alerts[i].zone_key = db[r].zone_key /\ alerts[i].ok

\* the send for a new zone failed; a later scan found the zone again, still
\* unmitigated, and did not try a second time
C15_Witness ==
    \E r \in 1..Len(db) :
        /\ db[r].alert_sent = 0
        /\ db[r].mitigated = 0
        /\ db[r].last_updated > db[r].first_seen
        /\ \E i \in NewZoneAttempts :
              alerts[i].zone_key = db[r].zone_key /\ ~alerts[i].ok

(***************************************************************************)
(* The index range of the generator loop.                                  *)
(***************************************************************************)
\* what the generator does for the base-end indices lo..hi: every zone it
\* produced ends in that range, and every base ending there that qualifies
\* (and scores at least MIN_SCORE) is among the zones it produced
GeneratorCovers(lo, hi) ==
    LET sig == signals(df, cfg)
    IN  /\ \A k \in 1..Len(raw_zones) : raw_zones[k].base_end_idx \in lo..hi
        /\ \A i \in lo..hi : \A base_len \in 1..cfg.BASE_MAX_CANDLES :
              \A zone_type \in {"demand", "supply"} :
                LET b == base_of(df, i, base_len)
                IN  (/\ qualifies(cfg, sig.atr[i], b, zone_type)
                     /\ passes_min_score(cfg, scored_zone(df, sig, b, zone_type).score))
                      => scored_zone(df, sig, b, zone_type) \in Range(raw_zones)

\* C21 as stated: the generator examines every base-end index from
\* BASE_MAX_CANDLES through length - BASE_MAX_CANDLES - 1, both inclusive, and
\* none outside; a qualifying base ending at any of them is emitted.
C21_RangeAsStated ==
    pc = "returned" =>
        GeneratorCovers(cfg.BASE_MAX_CANDLES, Len(df) - cfg.BASE_MAX_CANDLES - 1)

\* C21 amended: the generator examines every base-end index from
\* BASE_MAX_CANDLES through length - BASE_MAX_CANDLES - 2, both inclusive, and
\* none outside; a qualifying base ending at any of them is emitted.
C21_RangeOfLoop ==
    pc = "returned" =>
        GeneratorCovers(cfg.BASE_MAX_CANDLES, Len(df) - cfg.BASE_MAX_CANDLES - 2)

\* a zone ending at the last examined index length - BASE_MAX_CANDLES - 2 was
\* produced, while a base ending one bar later qualifies, would pass the score
\* filter, and produced nothing
C21_Witness ==
    /\ pc = "returned"
    /\ \E k \in 1..Len(raw_zones) :
          raw_zones[k].base_end_idx = Len(df) - cfg.BASE_MAX_CANDLES - 2
    /\ LET sig == signals(df, cfg)
           i   == Len(df) - cfg.BASE_MAX_CANDLES - 1
       IN  \E base_len \in 1..cfg.BASE_MAX_CANDLES : \E zone_type \in {"demand", "supply"} :
              LET b == base_of(df, i, base_len)
              IN  /\ qualifies(cfg, sig.atr[i], b, zone_type)
                  /\ passes_min_score(cfg, scored_zone(df, sig, b, zone_type).score)
                  /\ \A k \in 1..Len(raw_zones) : raw_zones[k].base_end_idx # i

(***************************************************************************)
(* The score breakdown.                                                    *)
(***************************************************************************)
\* the reference bands: a ratio num/den against a threshold in hundredths
Above(q, hundredths) == 100 * q.num > hundredths * q.den
Below(q, hundredths) == 100 * q.num < hundredths * q.den

ReferenceImpulse(q) ==
    IF Above(q, 300) THEN 10 ELSE IF Above(q, 180) THEN 5 ELSE 0

ReferenceTightness(q) ==
    IF Below(q, 20) THEN 10 ELSE IF Below(q, 40) THEN 5 ELSE 0

\* the look-ahead window of a returned or raw zone
WindowOf(z) == z.base_end_idx..(Min2(z.base_end_idx + LookAhead, Len(df)) - 1)

\* C22: the score breakdown matches the reference scorer.  For a call of the
\* scorer: impulse is 1.0 / 0.5 / 0.0 as the ratio is > 3.0 / > 1.8 / else,
\* tightness 1.0 / 0.5 / 0.0 as base range over volatility is < 0.20 / < 0.40 /
\* else (a ratio exactly at an edge scores in the lower band), fvg and bos are
\* 1.0 iff their flag is passed, clean_base is 1.0 iff base_len <= 2.  For
\* every candidate of find_zones: the ratios are impulse magnitude and base
\* range over the volatility at the base end, fvg (bos) is 1.0 iff a gap
\* marker (break flag) of the zone's direction lies in the look-ahead window.
C22_ScoreBreakdown ==
    /\ pc = "scored" =>
          LET a == scored.args
              d == scored.returned.details
          IN  /\ d.impulse = ReferenceImpulse(a.impulse_atr_ratio)
              /\ (a.impulse_atr_ratio.num = 3 * a.impulse_atr_ratio.den) => d.impulse = 5
              /\ (10 * a.impulse_atr_ratio.num = 18 * a.impulse_atr_ratio.den) => d.impulse = 0
              /\ a.atr_val.num > 0 =>
                    /\ d.tightness = ReferenceTightness(
                                        [num |-> a.base_range * a.atr_val.den,
                                         den |-> a.atr_val.num])
                    /\ (10 * a.base_range * a.atr_val.den = 2 * a.atr_val.num)
                          => d.tightness = 5
                    /\ (10 * a.base_range * a.atr_val.den = 4 * a.atr_val.num)
                          => d.tightness = 0
              /\ d.freshness = 10 * int(a.is_fresh)
              /\ d.fvg = 10 * int(a.fvg_present)
              /\ d.bos = 10 * int(a.bos_aligned)
              /\ d.clean_base = 10 * int(a.base_len <= 2)
              /\ scored.returned.total
                    = d.impulse + d.tightness + d.freshness + d.fvg + d.bos + d.clean_base
    /\ pc = "returned" =>
          LET atr == compute_atr(df, cfg.ATR_PERIOD).value
              sw  == compute_swings(df, cfg.LOOKBACK_SWINGS)
              bos == compute_bos(df, sw.swing_high, sw.swing_low)
              fvg == compute_fvg(df)
          IN  \A k \in 1..Len(raw_zones) :
                LET z == raw_zones[k]
                    v == atr[z.base_end_idx]
                    window_high == SetMax({ High(df, j) : j \in WindowOf(z) })
                    window_low  == SetMin({ Low(df, j) : j \in WindowOf(z) })
                    magnitude == IF z.type = "demand"
                                 THEN window_high - z.zone_high
                                 ELSE z.zone_low - window_low
                    gap   == IF z.type = "demand"
                             THEN \E j \in WindowOf(z) : fvg.bullish_fvg[j]
                             ELSE \E j \in WindowOf(z) : fvg.bearish_fvg[j]
                    break == IF z.type = "demand"
                             THEN \E j \in WindowOf(z) : bos.bullish_bos[j]
                             ELSE \E j \in WindowOf(z) : bos.bearish_bos[j]
                    d == z.score_details
                IN  /\ d.impulse = ReferenceImpulse([num |-> magnitude * v.den, den |-> v.num])
                    /\ d.tightness = ReferenceTightness(
                                        [num |-> (z.zone_high - z.zone_low) * v.den,
                                         den |-> v.num])
                    /\ d.fvg = 10 * int(gap)
                    /\ d.bos = 10 * int(break)
                    /\ d.clean_base = 10 * int(z.base_end_idx - z.base_start_idx + 1 <= 2)

\* the scorer was called with a ratio of exactly 3.0, a base range of exactly
\* 0.20 of the volatility and a three-bar base, and gave 0.5, 0.5 and 0.0
C22_Witness ==
    /\ pc = "scored"
    /\ scored.args.impulse_atr_ratio.num = 3 * scored.args.impulse_atr_ratio.den
    /\ 10 * scored.args.base_range * scored.args.atr_val.den = 2 * scored.args.atr_val.num
    /\ scored.args.atr_val.num > 0
    /\ scored.args.base_len = 3
    /\ scored.returned.details.impulse = 5
    /\ scored.returned.details.tightness = 5
    /\ scored.returned.details.clean_base = 0

\* find_zones returned a candidate whose window holds a gap marker of its
\* direction and no break flag of its direction
C22_WitnessCandidate ==
    /\ pc = "returned"
    /\ \E k \in 1..Len(raw_zones) :
          /\ raw_zones[k].score_details.fvg = 10
          /\ raw_zones[k].score_details.bos = 0
          /\ raw_zones[k].score_details.impulse = 5

(***************************************************************************)
(* Shutdown.                                                               *)
(***************************************************************************)
\* the log entries after the signal that set the flag
AfterSignal ==
    { j \in 1..Len(events) : \E i \in EventsOf("signal") : i < j }

\* C23 as stated: once the flag is set no further _scan_instrument call is
\* started and the main loop starts no new full scan; every sleep ends and
\* main eventually terminates.
C23_AsStated ==
    /\ [](AfterSignal = {})
    /\ shutdown ~> (main_pc = "exited")

\* C23 amended: once the flag is set, at most one more _scan_instrument call
\* or full scan is started (the one whose check of the flag had passed before
\* the signal), a full scan started after the signal calls _scan_instrument
\* for no instrument, every sleep ends and main eventually terminates.
C23_CleanShutdown ==
    /\ [](Cardinality(AfterSignal) <= 1)
    /\ shutdown ~> (main_pc = "exited")

\* main has exited after a signal that arrived between the loop's check and
\* the call for the first of two instruments: that call is the only entry
\* after the signal and the second instrument was never scanned
C23_Witness ==
    /\ main_pc = "exited"
    /\ shutdown
    /\ Len(instruments) = 2
    /\ idx = 2
    /\ Len(events) = 3
    /\ events[1] = "full_scan"
    /\ events[2] = "signal"
    /\ events[3] = "scan_instrument"

(***************************************************************************)
(* Ties in score.                                                          *)
(***************************************************************************)
\* a was generated before b: smaller base-end index, then shorter base, then
\* demand before supply
GeneratedBefore(a, b) ==
    LET len_a == a.base_end_idx - a.base_start_idx + 1
        len_b == b.base_end_idx - b.base_start_idx + 1
    IN  \/ a.base_end_idx < b.base_end_idx
        \/ a.base_end_idx = b.base_end_idx /\ len_a < len_b
        \/ a.base_end_idx = b.base_end_idx /\ len_a = len_b
             /\ a.type = "demand" /\ b.type = "supply"

\* in list, zones of equal score stand in generation order
TieOrder(list) ==
    \A j, k \in 1..Len(list) :
        (j < k /\ list[j].score = list[k].score) => GeneratedBefore(list[j], list[k])

\* the pairs of positions of the sorted raw_zones that hold equal-scored
\* overlapping candidates of one type
TiedOverlaps ==
    { p \in (1..Len(raw_zones)) \X (1..Len(raw_zones)) :
        /\ p[1] < p[2]
        /\ raw_zones[p[1]].score = raw_zones[p[2]].score
        /\ raw_zones[p[1]].type = raw_zones[p[2]].type
        /\ OpenOverlap(raw_zones[p[1]], raw_zones[p[2]]) }

\* C24 as stated: among candidates of equal score the one generated first
\* precedes the others in the output, and when equal-scored candidates of
\* one type overlap, the one generated later is not the one kept.
C24_AsStated ==
    pc = "returned" =>
        /\ TieOrder(raw_zones)
        /\ TieOrder(kept)
        /\ \A p \in TiedOverlaps : raw_zones[p[2]] \notin Range(kept)

\* C24 amended: among candidates of equal score the one generated first
\* precedes the others, in the sorted list and in the output; when
\* equal-scored candidates of one type overlap, the one generated later is
\* kept only if the one generated first was dropped because it overlaps a
\* zone of its type kept before it.
C24_TieOrder ==
    pc = "returned" =>
        /\ TieOrder(raw_zones)
        /\ TieOrder(kept)
        /\ \A p \in TiedOverlaps :
              raw_zones[p[2]] \in Range(kept) =>
                /\ raw_zones[p[1]] \notin Range(kept)
                /\ \E h \in 1..(p[1] - 1) :
                      /\ raw_zones[h] \in Range(kept)
                      /\ raw_zones[h].type = raw_zones[p[1]].type
                      /\ OpenOverlap(raw_zones[h], raw_zones[p[1]])

\* of two overlapping equal-scored demand candidates the one generated later
\* is returned, the first having been dropped for a higher-scored zone; and
\* another tied pair of the same run has its first-generated zone returned
C24_Witness ==
    /\ pc = "returned"
    /\ \E p \in TiedOverlaps : raw_zones[p[2]] \in Range(kept)
    /\ \E p \in TiedOverlaps :
          raw_zones[p[1]] \in Range(kept) /\ raw_zones[p[2]] \notin Range(kept)

(***************************************************************************)
(* Duplicates in the returned list.                                        *)
(***************************************************************************)
\* C25: no two returned zones of one type have the same zone_high and the
\* same zone_low, zones whose base is a single price level included.
C25_NoDuplicateBounds ==
    pc = "returned" =>
        \A j, k \in 1..Len(kept) :
            (/\ j # k
             /\ kept[j].type = kept[k].type
             /\ kept[j].zone_high = kept[k].zone_high)
              => kept[j].zone_low # kept[k].zone_low

(***************************************************************************)
(* Permanence of the mitigated flag in the zone store.                     *)
(***************************************************************************)
\* the step is a call of upsert_zone for the key of row i with a zone dict
\* whose mitigated is False
FreshUpsertOf(i) ==
    /\ last_call'.op = "upsert_zone"
    /\ StatedKey(last_call'.instrument, last_call'.zone) = db[i].zone_key
    /\ ~last_call'.zone.mitigated

\* row i is among the rows get_active_zones returns for its instrument
ActiveIn(rows, i) ==
    \E j \in 1..Len(get_active_zones(rows, rows[i].instrument)) :
        get_active_zones(rows, rows[i].instrument)[j] = rows[i]

====
